---------------------------- MODULE Spec2Model ----------------------------
(***************************************************************************)
(* semitile_core: Color / Palette (palette.rs), Tile (tile.rs),           *)
(* TilemapEntry / Tilemap (tilemap.rs); the TilemapEntry binding of        *)
(* web/src/lib.rs.                                                         *)
(*                                                                         *)
(* Every value type is a group of variables; every public method is an    *)
(* operator computing the new value, wrapped in an action that also       *)
(* records the call (its arguments, the value before it, its result) in   *)
(* the type's *_last variable.  Each type has a specification of its own  *)
(* in which the other types stay at their constructed value.              *)
(***************************************************************************)
EXTENDS Integers, Sequences, FiniteSets, TLC

VARIABLES color_val, color_last,
          sub_palettes, palette_last,
          pixels, tile_last,
          entry, entry_last,
          width, height, entries, tilemap_last

vars == << color_val, color_last, sub_palettes, palette_last, pixels, tile_last,
           entry, entry_last, width, height, entries, tilemap_last >>

color_vars == << color_val, color_last >>
palette_vars == << sub_palettes, palette_last >>
tile_vars == << pixels, tile_last >>
entry_vars == << entry, entry_last >>
tilemap_vars == << width, height, entries, tilemap_last >>

\* what a call on one type leaves alone: the values of the other types
not_color == << palette_vars, tile_vars, entry_vars, tilemap_vars >>
not_palette == << color_vars, tile_vars, entry_vars, tilemap_vars >>
not_tile == << color_vars, palette_vars, entry_vars, tilemap_vars >>
not_entry == << color_vars, palette_vars, tile_vars, tilemap_vars >>
not_tilemap == << color_vars, palette_vars, tile_vars, entry_vars >>

(***************************************************************************)
(* Rust's Option<T>: None is the empty sequence, Some(v) the sequence <<v>>*)
(***************************************************************************)
None == << >>
Some(v) == << v >>
IsSome(o) == Len(o) = 1
Unwrap(o) == o[1]

(***************************************************************************)
(* Fixed-width unsigned integer operators: & | << >> on u8 / u16.         *)
(***************************************************************************)
U8 == 256
U16 == 65536

RECURSIVE BitAnd(_, _)
BitAnd(a, b) ==
    IF a = 0 \/ b = 0 THEN 0
    ELSE (a % 2) * (b % 2) + 2 * BitAnd(a \div 2, b \div 2)

RECURSIVE BitOr(_, _)
BitOr(a, b) ==
    IF a = 0 THEN b
    ELSE IF b = 0 THEN a
    ELSE (IF a % 2 = 1 \/ b % 2 = 1 THEN 1 ELSE 0) + 2 * BitOr(a \div 2, b \div 2)

\* a << n in an unsigned type of modulus m: the bits shifted out are dropped
Shl(a, n, m) == (a * (2 ^ n)) % m

\* a >> n
Shr(a, n) == a \div (2 ^ n)

\* u8::min / u16::min
Min(a, b) == IF a < b THEN a ELSE b

\* the concatenation chunks[lo] \o ... \o chunks[hi]: what a loop leaves in
\* a Vec when its pass number i pushes the bytes of chunks[i]
RECURSIVE Flatten(_, _, _)
Flatten(chunks, lo, hi) ==
    IF lo > hi THEN << >>
    ELSE IF lo = hi THEN chunks[lo]
    ELSE LET mid == (lo + hi) \div 2
         IN  Flatten(chunks, lo, mid) \o Flatten(chunks, mid + 1, hi)

(***************************************************************************)
(* Color (palette.rs)                                                      *)
(***************************************************************************)
\* Color::new keeping the low 5 bits of a channel instead of saturating
Color_new_wrapping(r, g, b) == [r |-> r % 32, g |-> g % 32, b |-> b % 32]

Color_new(r, g, b) == [r |-> Min(r, 31), g |-> Min(g, 31), b |-> Min(b, 31)]

\* to_rgb555 with blue in the high field and red in the low one
to_rgb555_bgr(c) ==
    BitOr(BitOr(Shl(c.b, 10, U16), Shl(c.g, 5, U16)), c.r)

\* to_rgb555 with red shifted to bit 11 instead of bit 10
to_rgb555_red_at_11(c) ==
    BitOr(BitOr(Shl(c.r, 11, U16), Shl(c.g, 5, U16)), c.b)

to_rgb555(c) ==
    BitOr(BitOr(Shl(c.r, 10, U16), Shl(c.g, 5, U16)), c.b)

\* from_rgb555 reading green from bit 6 on
from_rgb555_green_at_6(value) ==
    [r |-> BitAnd(Shr(value, 10), 31),
     g |-> BitAnd(Shr(value, 6), 31),
     b |-> BitAnd(value, 31)]

from_rgb555(value) ==
    [r |-> BitAnd(Shr(value, 10), 31),
     g |-> BitAnd(Shr(value, 5), 31),
     b |-> BitAnd(value, 31)]

from_rgb888(r, g, b) == [r |-> Shr(r, 3), g |-> Shr(g, 3), b |-> Shr(b, 3)]

to_rgb888(c) ==
    << BitOr(Shl(c.r, 3, U8), Shr(c.r, 2)),
       BitOr(Shl(c.g, 3, U8), Shr(c.g, 2)),
       BitOr(Shl(c.b, 3, U8), Shr(c.b, 2)) >>

Color_default == Color_new(0, 0, 0)

(***************************************************************************)
(* Palette (palette.rs)                                                    *)
(***************************************************************************)
Palette_new == [p \in 0..15 |-> [c \in 0..15 |-> Color_default]]

get_color(sp, palette_idx, color_idx) == sp[palette_idx % 16][color_idx % 16]

\* set_color saturating its indices at 15 instead of wrapping them
set_color_clamped(sp, palette_idx, color_idx, color) ==
    [sp EXCEPT ![Min(palette_idx, 15)][Min(color_idx, 15)] = color]

set_color(sp, palette_idx, color_idx, color) ==
    [sp EXCEPT ![palette_idx % 16][color_idx % 16] = color]

\* the two bytes pushed for one 16-bit word: low byte, then high byte
PushWord(value) == << BitAnd(value, 255), BitAnd(Shr(value, 8), 255) >>

\* export_binary with the colour index in the outer loop
Palette_export_binary_colour_major(sp) ==
    Flatten([k \in 1..256 |->
                PushWord(to_rgb555(sp[(k - 1) % 16][(k - 1) \div 16]))], 1, 256)

\* pass k (from 1) of the nested loops is sub-palette (k - 1) \div 16,
\* colour (k - 1) % 16
Palette_export_binary(sp) ==
    Flatten([k \in 1..256 |->
                PushWord(to_rgb555(sp[(k - 1) \div 16][(k - 1) % 16]))], 1, 256)

\* ReadWord taking the first byte as the high byte
ReadWord_big_endian(data, offset) ==
    BitOr(Shl(data[offset + 1], 8, U16), data[offset + 2])

\* the 16-bit word read at a 0-based byte offset: (high << 8) | low
ReadWord(data, offset) ==
    BitOr(Shl(data[offset + 2], 8, U16), data[offset + 1])

\* import_binary rejecting only buffers shorter than 512 bytes
Palette_import_binary_at_least(data) ==
    IF Len(data) < 512 THEN None
    ELSE Some([p \in 0..15 |-> [c \in 0..15 |->
                 from_rgb555(ReadWord(data, (p * 16 + c) * 2))]])

Palette_import_binary(data) ==
    IF Len(data) # 512 THEN None
    ELSE Some([p \in 0..15 |-> [c \in 0..15 |->
                 from_rgb555(ReadWord(data, (p * 16 + c) * 2))]])

(***************************************************************************)
(* Tile (tile.rs)                                                          *)
(***************************************************************************)
Tile_new == [y \in 0..7 |-> [x \in 0..7 |-> 0]]

\* set_pixel accepting only colours below 15
set_pixel_below_15(px, x, y, color) ==
    IF x < 8 /\ y < 8 /\ color < 15 THEN [px EXCEPT ![y][x] = color] ELSE px

set_pixel(px, x, y, color) ==
    IF x < 8 /\ y < 8 /\ color < 16 THEN [px EXCEPT ![y][x] = color] ELSE px

\* get_pixel indexing pixels[x][y]
get_pixel_transposed(px, x, y) == IF x < 8 /\ y < 8 THEN px[x][y] ELSE 0

get_pixel(px, x, y) == IF x < 8 /\ y < 8 THEN px[y][x] ELSE 0

\* the inner loop with plane 0 taking the most significant colour bit
RECURSIVE ScatterRow_msb_plane_first(_, _, _, _, _)
ScatterRow_msb_plane_first(px, y, k, x, byte) ==
    IF x = 8 THEN byte
    ELSE LET color == px[y][x]
             bit_pos == 7 - x
         IN  ScatterRow_msb_plane_first(px, y, k, x + 1,
                        IF BitAnd(color, 2 ^ (3 - k)) # 0
                        THEN BitOr(byte, Shl(1, bit_pos, U8))
                        ELSE byte)

\* the inner loop of to_planar for row y and plane k, from column x on: the
\* byte planar[8*k + y] gets bit 7 - x or-ed in when bit k of the colour of
\* pixel (x, y) is set
RECURSIVE ScatterRow(_, _, _, _, _)
ScatterRow(px, y, k, x, byte) ==
    IF x = 8 THEN byte
    ELSE LET color == px[y][x]
             bit_pos == 7 - x
         IN  ScatterRow(px, y, k, x + 1,
                        IF BitAnd(color, 2 ^ k) # 0
                        THEN BitOr(byte, Shl(1, bit_pos, U8))
                        ELSE byte)

\* to_planar with the leftmost pixel in bit 0 instead of bit 7
to_planar_lsb_first(px) ==
    [i \in 0..31 |-> ScatterRow([y \in 0..7 |-> [x \in 0..7 |-> px[y][7 - x]]],
                                i % 8, i \div 8, 0, 0)]

\* Tile::to_planar: a [u8; 32], indexed from 0, byte 8*k + y for plane k, row y
to_planar(px) == [i \in 0..31 |-> ScatterRow(px, i % 8, i \div 8, 0, 0)]

\* GatherPixel reading planes 0..2 only
GatherPixel_three_planes(planes, x) ==
    LET bit_pos == 7 - x
        plane(color, k) ==
            IF BitAnd(planes[k + 1], Shl(1, bit_pos, U8)) # 0
            THEN BitOr(color, 2 ^ k)
            ELSE color
    IN  plane(plane(plane(0, 0), 1), 2)

\* the colour from_planar gathers for column x of a row whose plane bytes
\* are planes[1..4] (planes 0..3): bit k is set when bit 7 - x of plane k is
GatherPixel(planes, x) ==
    LET bit_pos == 7 - x
        plane(color, k) ==
            IF BitAnd(planes[k + 1], Shl(1, bit_pos, U8)) # 0
            THEN BitOr(color, 2 ^ k)
            ELSE color
    IN  plane(plane(plane(plane(0, 0), 1), 2), 3)

\* Tile::from_planar: row y reads data[y], data[8 + y], data[16 + y], data[24 + y]
from_planar(data) ==
    [y \in 0..7 |->
        LET planes == << data[y], data[8 + y], data[16 + y], data[24 + y] >>
        IN  [x \in 0..7 |-> GatherPixel(planes, x)]]

(***************************************************************************)
(* TilemapEntry / Tilemap (tilemap.rs)                                     *)
(***************************************************************************)
TilemapEntry_default ==
    [tile_index |-> 0, h_flip |-> FALSE, v_flip |-> FALSE,
     priority |-> FALSE, palette_idx |-> 0]

TilemapEntry_new(tile_index, palette_idx, h_flip, v_flip, priority) ==
    [tile_index |-> Min(tile_index, 1023), h_flip |-> h_flip, v_flip |-> v_flip,
     priority |-> priority, palette_idx |-> Min(palette_idx, 7)]

\* to_u16 with h_flip in bit 14 and v_flip in bit 13
to_u16_flips_swapped(e) ==
    LET tile == BitAnd(e.tile_index, 1023)
        pal == BitOr(tile, Shl(BitAnd(e.palette_idx, 7), 10, U16))
        h == IF e.h_flip THEN BitOr(pal, Shl(1, 14, U16)) ELSE pal
        v == IF e.v_flip THEN BitOr(h, Shl(1, 13, U16)) ELSE h
    IN  IF e.priority THEN BitOr(v, Shl(1, 15, U16)) ELSE v

to_u16(e) ==
    LET tile == BitAnd(e.tile_index, 1023)
        pal == BitOr(tile, Shl(BitAnd(e.palette_idx, 7), 10, U16))
        h == IF e.h_flip THEN BitOr(pal, Shl(1, 13, U16)) ELSE pal
        v == IF e.v_flip THEN BitOr(h, Shl(1, 14, U16)) ELSE h
    IN  IF e.priority THEN BitOr(v, Shl(1, 15, U16)) ELSE v

\* from_u16 reading the palette index with a 4-bit mask
from_u16_palette_4_bits(value) ==
    [tile_index |-> BitAnd(value, 1023),
     palette_idx |-> BitAnd(Shr(value, 10), 15),
     h_flip |-> BitAnd(value, Shl(1, 13, U16)) # 0,
     v_flip |-> BitAnd(value, Shl(1, 14, U16)) # 0,
     priority |-> BitAnd(value, Shl(1, 15, U16)) # 0]

from_u16(value) ==
    [tile_index |-> BitAnd(value, 1023),
     palette_idx |-> BitAnd(Shr(value, 10), 7),
     h_flip |-> BitAnd(value, Shl(1, 13, U16)) # 0,
     v_flip |-> BitAnd(value, Shl(1, 14, U16)) # 0,
     priority |-> BitAnd(value, Shl(1, 15, U16)) # 0]

\* set_tile_index keeping the low 10 bits instead of saturating
set_tile_index_wrapped(e, tile_index) ==
    [e EXCEPT !.tile_index = BitAnd(tile_index, 1023)]

set_tile_index(e, tile_index) == [e EXCEPT !.tile_index = Min(tile_index, 1023)]
set_palette_idx(e, palette_idx) == [e EXCEPT !.palette_idx = Min(palette_idx, 7)]
set_h_flip(e, h_flip) == [e EXCEPT !.h_flip = h_flip]
set_v_flip(e, v_flip) == [e EXCEPT !.v_flip = v_flip]
set_priority(e, priority) == [e EXCEPT !.priority = priority]

\* WasmTilemapEntry (web/src/lib.rs) wraps a core TilemapEntry and forwards
\* to it.  Its constructor passes tile_index, palette_idx, h_flip and v_flip
\* to TilemapEntry::new and names no priority; the entry it would hold is the
\* core's, for whichever priority the core's fifth parameter receives.
WasmTilemapEntry_new(tile_index, palette_idx, h_flip, v_flip, priority) ==
    TilemapEntry_new(tile_index, palette_idx, h_flip, v_flip, priority)

WasmTilemapEntry_set_palette_idx(e, palette_idx) == set_palette_idx(e, palette_idx)

WasmTilemapEntry_to_u16(e) == to_u16(e)

\* usize::clamp
Clamp(v, lo, hi) == IF v < lo THEN lo ELSE IF v > hi THEN hi ELSE v

\* vec![TilemapEntry::default(); n]; the Vec's index i is the sequence's i + 1
DefaultEntries(n) == [i \in 1..n |-> TilemapEntry_default]

\* Tilemap::new without the lower clamp
Tilemap_new_no_lower_clamp(w, h) ==
    LET cw == Min(w, 256)
        ch == Min(h, 256)
    IN  [width |-> cw, height |-> ch, entries |-> DefaultEntries(cw * ch)]

\* a Tilemap is the record of its three fields
Tilemap_new(w, h) ==
    LET cw == Clamp(w, 1, 256)
        ch == Clamp(h, 1, 256)
    IN  [width |-> cw, height |-> ch, entries |-> DefaultEntries(cw * ch)]

get_entry(m, x, y) ==
    IF x < m.width /\ y < m.height
    THEN Some(m.entries[(y * m.width + x) + 1])
    ELSE None

\* set_entry indexing the Vec column-major
set_entry_column_major(m, x, y, e) ==
    IF x < m.width /\ y < m.height
    THEN [m EXCEPT !.entries[(x * m.height + y) + 1] = e]
    ELSE m

set_entry(m, x, y, e) ==
    IF x < m.width /\ y < m.height
    THEN [m EXCEPT !.entries[(y * m.width + x) + 1] = e]
    ELSE m

\* export_binary walking the grid column by column
Tilemap_export_binary_column_major(m) ==
    Flatten([k \in 1..Len(m.entries) |->
                LET x == (k - 1) \div m.height
                    y == (k - 1) % m.height
                IN  PushWord(to_u16(m.entries[(y * m.width + x) + 1]))],
            1, Len(m.entries))

\* export_binary pushing the high byte of every word first
Tilemap_export_binary_high_first(m) ==
    Flatten([i \in 1..Len(m.entries) |->
                << BitAnd(Shr(to_u16(m.entries[i]), 8), 255),
                   BitAnd(to_u16(m.entries[i]), 255) >>], 1, Len(m.entries))

Tilemap_export_binary(m) ==
    Flatten([i \in 1..Len(m.entries) |-> PushWord(to_u16(m.entries[i]))],
            1, Len(m.entries))

\* import_binary advancing one byte, not two, from one entry to the next
Tilemap_import_binary_byte_stride(data, w, h) ==
    LET cw == Clamp(w, 1, 256)
        ch == Clamp(h, 1, 256)
        expected_size == cw * ch * 2
    IN  IF Len(data) # expected_size THEN None
        ELSE Some([width |-> cw, height |-> ch,
                   entries |-> [i \in 1..(cw * ch) |->
                                   from_u16(ReadWord(data, i - 1))]])

\* import_binary rejecting only buffers that are too short
Tilemap_import_binary_at_least(data, w, h) ==
    LET cw == Clamp(w, 1, 256)
        ch == Clamp(h, 1, 256)
        expected_size == cw * ch * 2
    IN  IF Len(data) < expected_size THEN None
        ELSE Some([width |-> cw, height |-> ch,
                   entries |-> [i \in 1..(cw * ch) |->
                                   from_u16(ReadWord(data, (i - 1) * 2))]])

Tilemap_import_binary(data, w, h) ==
    LET cw == Clamp(w, 1, 256)
        ch == Clamp(h, 1, 256)
        expected_size == cw * ch * 2
    IN  IF Len(data) # expected_size THEN None
        ELSE Some([width |-> cw, height |-> ch,
                   entries |-> [i \in 1..(cw * ch) |->
                                   from_u16(ReadWord(data, (i - 1) * 2))]])

\* resize allocating the new grid and copying nothing into it
resize_no_copy(m, new_width, new_height) ==
    LET nw == Clamp(new_width, 1, 256)
        nh == Clamp(new_height, 1, 256)
    IN  IF nw = m.width /\ nh = m.height THEN m
        ELSE [width |-> nw, height |-> nh, entries |-> DefaultEntries(nw * nh)]

\* the entries resize leaves: new_entries[y * new_width + x] is
\* entries[y * width + x] for y < min_height and x < min_width, else default
ResizedEntries(m, nw, nh, old_stride) ==
    LET min_width == Min(m.width, nw)
        min_height == Min(m.height, nh)
    IN  [idx \in 1..(nw * nh) |->
            LET y == (idx - 1) \div nw
                x == (idx - 1) % nw
            IN  IF y < min_height /\ x < min_width
                THEN m.entries[(y * old_stride + x) + 1]
                ELSE TilemapEntry_default]

\* resize that truncates or pads the old vector without re-laying its rows
resize_keep_layout(m, new_width, new_height) ==
    LET nw == Clamp(new_width, 1, 256)
        nh == Clamp(new_height, 1, 256)
    IN  IF nw = m.width /\ nh = m.height THEN m
        ELSE [width |-> nw, height |-> nh,
              entries |-> [idx \in 1..(nw * nh) |->
                              IF idx <= Len(m.entries) THEN m.entries[idx]
                              ELSE TilemapEntry_default]]

resize(m, new_width, new_height) ==
    LET nw == Clamp(new_width, 1, 256)
        nh == Clamp(new_height, 1, 256)
    IN  IF nw = m.width /\ nh = m.height THEN m
        ELSE [width |-> nw, height |-> nh,
              entries |-> ResizedEntries(m, nw, nh, m.width)]

clear(m) == [m EXCEPT !.entries = [i \in 1..Len(m.entries) |-> TilemapEntry_default]]

\* fill stopping one entry before the end of the Vec
fill_all_but_last(m, e) ==
    [m EXCEPT !.entries = [i \in 1..Len(m.entries) |->
                              IF i < Len(m.entries) THEN e ELSE m.entries[i]]]

fill(m, e) == [m EXCEPT !.entries = [i \in 1..Len(m.entries) |-> e]]

(***************************************************************************)
(* Inputs of the Palette specifications                                    *)
(***************************************************************************)
\* u8 palette / colour indices: in range, and wrapping ones (18 -> 2, 255 -> 15)
PaletteIdxInputs == {0, 18}
ColorIdxInputs == {2, 15, 255}

\* colours a caller can build: Color::new (clamping), from_rgb555 (bit 15 set
\* in the word), from_rgb888
ColorInputs ==
    { Color_new(200, 0, 12), from_rgb555(40000), from_rgb888(255, 128, 7) }

\* a buffer of n bytes repeating a byte pattern
Buffer(n, pat) == [i \in 1..n |-> pat[((i - 1) % Len(pat)) + 1]]

BytePatterns ==
    { << 0 >>, << 255 >>, << 255, 127 >>, << 42, 181, 255, 3 >>, << 9, 127, 200 >>,
      << 1, 2, 4, 8, 16, 32, 64 >>, << 128, 0 >>, << 0, 128 >>, << 171, 84, 0 >>,
      << 31, 124, 224, 3 >> }

PaletteBufLens == {0, 1, 2, 511, 512, 513, 1024}

PaletteBufferInputs == { Buffer(n, pat) : n \in PaletteBufLens, pat \in BytePatterns }

\* color_val is the Color held.  color_last: how it was constructed (op,
\* with its arguments r, g, b
\* or value; of_packed when value is the to_rgb555 of the colour held
\* before, pre), and the last conversion called on it (method) with what it
\* returned (packed, rgb888)
NoColorCall ==
    [op |-> "default", r |-> 0, g |-> 0, b |-> 0, value |-> 0,
     of_packed |-> FALSE, pre |-> Color_default,
     method |-> "none", packed |-> 0, rgb888 |-> << 0, 0, 0 >>]

ColorInit ==
    /\ color_val = Color_default
    /\ color_last = NoColorCall

\* palette_last: the last Palette call, its arguments, the palette before it,
\* and what import_binary returned
NoPaletteCall ==
    [op |-> "new", palette_idx |-> 0, color_idx |-> 0, color |-> Color_default,
     data |-> << >>, result |-> None, pre |-> Palette_new]

PaletteInit ==
    /\ sub_palettes = Palette_new
    /\ palette_last = NoPaletteCall

\* tile_last: the last Tile call, its arguments and the pixels before it
NoTileCall ==
    [op |-> "new", x |-> 0, y |-> 0, color |-> 0,
     data |-> [i \in 0..31 |-> 0], pre |-> Tile_new]

TileInit ==
    /\ pixels = Tile_new
    /\ tile_last = NoTileCall

\* entry_last: the last TilemapEntry call, its arguments (numbers in
\* tile_index / palette_idx / value, flags in h_flip / v_flip / priority) and
\* the entry before it
NoEntryCall ==
    [op |-> "default", tile_index |-> 0, palette_idx |-> 0, value |-> 0,
     h_flip |-> FALSE, v_flip |-> FALSE, priority |-> FALSE,
     pre |-> TilemapEntry_default]

EntryInit ==
    /\ entry = TilemapEntry_default
    /\ entry_last = NoEntryCall

\* tilemap_last: the last Tilemap call, its arguments, the map before it and
\* what import_binary returned; before is, for a resize that follows a
\* resize, the map as it was before the two of them
NoTilemapCall ==
    [op |-> "new", x |-> 0, y |-> 0, entry |-> TilemapEntry_default,
     w |-> 1, h |-> 1, data |-> << >>, result |-> None,
     pre |-> Tilemap_new(1, 1), before |-> None]

TilemapInit ==
    /\ width = 1
    /\ height = 1
    /\ entries = DefaultEntries(1)
    /\ tilemap_last = NoTilemapCall

Init == ColorInit /\ PaletteInit /\ TileInit /\ EntryInit /\ TilemapInit

\* Palette::set_color
SetColor ==
    \E p \in PaletteIdxInputs, c \in ColorIdxInputs, col \in ColorInputs :
        /\ sub_palettes' = set_color(sub_palettes, p, c, col)
        /\ palette_last' = [NoPaletteCall EXCEPT !.op = "set_color",
                               !.palette_idx = p, !.color_idx = c,
                               !.color = col, !.pre = sub_palettes]
        /\ UNCHANGED not_palette

\* Palette::new
PaletteNew ==
    /\ sub_palettes' = Palette_new
    /\ palette_last' = [NoPaletteCall EXCEPT !.pre = sub_palettes]
    /\ UNCHANGED not_palette

PaletteNext ==
    \/ SetColor
    \/ PaletteNew

\* a Palette mutated in place: new, then any sequence of set_color
SpecPalette == Init /\ [][PaletteNext]_vars

\* Palette::import_binary is a static function of the caller's buffer: the
\* caller holds a buffer (op "buffer"), then calls import_binary on it; a
\* present result is the palette from then on
PaletteImportInit ==
    /\ sub_palettes = Palette_new
    /\ \E data \in PaletteBufferInputs :
           palette_last = [NoPaletteCall EXCEPT !.op = "buffer", !.data = data]
    /\ ColorInit /\ TileInit /\ EntryInit /\ TilemapInit

PaletteImportBinary ==
    /\ palette_last.op = "buffer"
    /\ LET res == Palette_import_binary(palette_last.data)
       IN  /\ sub_palettes' = IF IsSome(res) THEN Unwrap(res) ELSE sub_palettes
           /\ palette_last' = [palette_last EXCEPT !.op = "import_binary",
                                  !.result = res, !.pre = sub_palettes]
    /\ UNCHANGED not_palette

PaletteImportNext == PaletteImportBinary

SpecPaletteImport == PaletteImportInit /\ [][PaletteImportNext]_vars

(***************************************************************************)
(* The Color specification                                                 *)
(***************************************************************************)
\* u8 channel arguments of Color::new: every 5-bit value, and values above 31
NewChannelInputs == (0..31) \cup {32, 50, 255}

\* u8 channel arguments of Color::from_rgb888
ByteChannelInputs == {0, 7, 8, 100, 128, 247, 248, 255}

\* u16 arguments of Color::from_rgb555: black, white, one channel at a time,
\* and words with bit 15 set
PackedInputs == {0, 32767, 31, 992, 31744, 32456, 21845, 32768, 40000, 65535}

\* a Color is constructed by default(), new, from_rgb555 or from_rgb888
ColorConstructed ==
    \/ ColorInit
    \/ \E r \in NewChannelInputs, g \in NewChannelInputs, b \in NewChannelInputs :
           /\ color_val = Color_new(r, g, b)
           /\ color_last = [NoColorCall EXCEPT !.op = "new", !.r = r, !.g = g, !.b = b]
    \/ \E value \in PackedInputs :
           /\ color_val = from_rgb555(value)
           /\ color_last = [NoColorCall EXCEPT !.op = "from_rgb555", !.value = value]
    \/ \E r \in ByteChannelInputs, g \in ByteChannelInputs, b \in ByteChannelInputs :
           /\ color_val = from_rgb888(r, g, b)
           /\ color_last = [NoColorCall EXCEPT !.op = "from_rgb888", !.r = r, !.g = g,
                               !.b = b]

\* Color::to_rgb555 on the colour held
ToRgb555 ==
    /\ color_last.method = "none"
    /\ color_last' = [color_last EXCEPT !.method = "to_rgb555",
                         !.packed = to_rgb555(color_val)]
    /\ UNCHANGED << color_val, not_color >>

\* Color::to_rgb888 on the colour held
ToRgb888 ==
    /\ color_last.method = "none"
    /\ color_last' = [color_last EXCEPT !.method = "to_rgb888",
                         !.rgb888 = to_rgb888(color_val)]
    /\ UNCHANGED << color_val, not_color >>

\* Color::from_rgb555 on the word to_rgb555 just returned
FromPacked ==
    /\ color_last.method = "to_rgb555"
    /\ color_val' = from_rgb555(color_last.packed)
    /\ color_last' = [NoColorCall EXCEPT !.op = "from_rgb555",
                         !.value = color_last.packed, !.of_packed = TRUE,
                         !.pre = color_val]
    /\ UNCHANGED not_color

ColorNext ==
    \/ ToRgb555
    \/ ToRgb888
    \/ FromPacked

ColorSpecInit ==
    ColorConstructed /\ PaletteInit /\ TileInit /\ EntryInit /\ TilemapInit

SpecColor == ColorSpecInit /\ [][ColorNext]_vars

(***************************************************************************)
(* The Tile specification                                                  *)
(***************************************************************************)
\* usize coordinates: the two edges of a row, and out-of-range ones
XInputs == {0, 7, 8}
YInputs == {0, 8}

\* u8 colour indices: in range, the largest 4-bit index, and too large ones
PixelColorInputs == {5, 14, 15, 16}

\* the planar data of a tile whose 64 pixels all have colour k
UniformPlanar(k) ==
    [i \in 0..31 |-> IF BitAnd(k, 2 ^ (i \div 8)) # 0 THEN 255 ELSE 0]

\* planar buffers: one colour everywhere, for each of the 16 colours; each
\* colour once in every pair of rows; arbitrary bytes
PlanarInputs ==
    { UniformPlanar(k) : k \in 0..15 } \cup
    { [i \in 0..31 |-> CASE i \div 8 = 0 -> 170
                         [] i \div 8 = 1 -> 204
                         [] i \div 8 = 2 -> 240
                         [] OTHER -> IF i % 2 = 0 THEN 255 ELSE 0],
      [i \in 0..31 |-> (i * 37 + 11) % 256],
      [i \in 0..31 |-> (i * i * 7 + 200) % 256] }

\* a tile is constructed by Tile::new or by Tile::from_planar
TileConstructed ==
    \/ TileInit
    \/ \E data \in PlanarInputs :
           /\ pixels = from_planar(data)
           /\ tile_last = [NoTileCall EXCEPT !.op = "from_planar", !.data = data]

\* Tile::set_pixel
SetPixel ==
    \E x \in XInputs, y \in YInputs, color \in PixelColorInputs :
        /\ pixels' = set_pixel(pixels, x, y, color)
        /\ tile_last' = [NoTileCall EXCEPT !.op = "set_pixel", !.x = x, !.y = y,
                            !.color = color, !.pre = pixels]
        /\ UNCHANGED not_tile

TileNext == SetPixel

TileSpecInit ==
    ColorInit /\ PaletteInit /\ TileConstructed /\ EntryInit /\ TilemapInit

SpecTile == TileSpecInit /\ [][TileNext]_vars

(***************************************************************************)
(* The TilemapEntry specification                                          *)
(***************************************************************************)
\* u16 tile indices and u8 palette indices: in range, the maxima, beyond them
TileIndexInputs == {0, 511, 1023, 1024, 65535}
PaletteIndexInputs == {0, 3, 7, 8, 255}

\* 16-bit words
WordInputs == {0, 1, 1023, 1024, 7168, 8192, 16384, 32768, 35882, 65535}

\* an entry is constructed by default(), new(...) or from_u16(...)
EntryConstructed ==
    \/ EntryInit
    \/ \E t \in TileIndexInputs, p \in PaletteIndexInputs,
          hf \in BOOLEAN, vf \in BOOLEAN, pr \in BOOLEAN :
           /\ entry = TilemapEntry_new(t, p, hf, vf, pr)
           /\ entry_last = [NoEntryCall EXCEPT !.op = "new", !.tile_index = t,
                               !.palette_idx = p, !.h_flip = hf, !.v_flip = vf,
                               !.priority = pr]
    \/ \E value \in WordInputs :
           /\ entry = from_u16(value)
           /\ entry_last = [NoEntryCall EXCEPT !.op = "from_u16", !.value = value]
    \/ \E t \in TileIndexInputs, p \in PaletteIndexInputs,
          hf \in BOOLEAN, vf \in BOOLEAN, pr \in BOOLEAN :
           /\ entry = WasmTilemapEntry_new(t, p, hf, vf, pr)
           /\ entry_last = [NoEntryCall EXCEPT !.op = "wasm_new", !.tile_index = t,
                               !.palette_idx = p, !.h_flip = hf, !.v_flip = vf,
                               !.priority = pr]

SetTileIndex ==
    \E t \in TileIndexInputs :
        /\ entry' = set_tile_index(entry, t)
        /\ entry_last' = [NoEntryCall EXCEPT !.op = "set_tile_index",
                             !.tile_index = t, !.pre = entry]
        /\ UNCHANGED not_entry

SetPaletteIdx ==
    \E p \in PaletteIndexInputs :
        /\ entry' = set_palette_idx(entry, p)
        /\ entry_last' = [NoEntryCall EXCEPT !.op = "set_palette_idx",
                             !.palette_idx = p, !.pre = entry]
        /\ UNCHANGED not_entry

\* WasmTilemapEntry::set_palette_idx
WasmSetPaletteIdx ==
    \E p \in PaletteIndexInputs :
        /\ entry' = WasmTilemapEntry_set_palette_idx(entry, p)
        /\ entry_last' = [NoEntryCall EXCEPT !.op = "wasm_set_palette_idx",
                             !.palette_idx = p, !.pre = entry]
        /\ UNCHANGED not_entry

SetHFlip ==
    \E f \in BOOLEAN :
        /\ entry' = set_h_flip(entry, f)
        /\ entry_last' = [NoEntryCall EXCEPT !.op = "set_h_flip",
                             !.h_flip = f, !.pre = entry]
        /\ UNCHANGED not_entry

SetVFlip ==
    \E f \in BOOLEAN :
        /\ entry' = set_v_flip(entry, f)
        /\ entry_last' = [NoEntryCall EXCEPT !.op = "set_v_flip",
                             !.v_flip = f, !.pre = entry]
        /\ UNCHANGED not_entry

SetPriority ==
    \E f \in BOOLEAN :
        /\ entry' = set_priority(entry, f)
        /\ entry_last' = [NoEntryCall EXCEPT !.op = "set_priority",
                             !.priority = f, !.pre = entry]
        /\ UNCHANGED not_entry

EntryNext ==
    \/ SetTileIndex
    \/ SetPaletteIdx
    \/ WasmSetPaletteIdx
    \/ SetHFlip
    \/ SetVFlip
    \/ SetPriority

EntrySpecInit ==
    ColorInit /\ PaletteInit /\ TileInit /\ EntryConstructed /\ TilemapInit

SpecEntry == EntrySpecInit /\ [][EntryNext]_vars

(***************************************************************************)
(* The Tilemap specifications                                              *)
(***************************************************************************)
\* small widths run from 0 to MaxWidth, small heights from 0 to MaxHeight
MaxWidth == 3
MaxHeight == 2

\* a dimension above the limit of 256
OverDim == 300

\* (width, height) arguments: every pair of small dimensions, and pairs with
\* one dimension above the limit
DimInputs ==
    ((0..MaxWidth) \X (0..MaxHeight)) \cup
    { << OverDim, 1 >>, << 1, OverDim >>, << OverDim, 0 >> }

\* an entry a caller can build with TilemapEntry::new (which clamps 2000
\* and 9)
EntryInputs == { TilemapEntry_new(2000, 9, FALSE, TRUE, TRUE) }

\* (x, y) arguments of set_entry
CoordInputs ==
    { << 1, 0 >>, << 0, 1 >>, << 255, 0 >>, << 256, 0 >>, << 0, 256 >> }

\* buffer lengths: those of the small maps, those of a 256-entry map, and
\* lengths of no map
TilemapBufLens ==
    { 2 * w * h : w \in 1..MaxWidth, h \in 1..MaxHeight } \cup {0, 1, 3, 511, 512, 600, 1024}

TilemapBytePatterns == { << 0 >>, << 255 >>, << 42, 181, 255, 3, 9 >> }

TilemapBufferInputs ==
    { Buffer(n, pat) : n \in TilemapBufLens, pat \in TilemapBytePatterns }

\* the Tilemap held in the variables
ThisMap == [width |-> width, height |-> height, entries |-> entries]

IsMap(m) ==
    /\ width = m.width
    /\ height = m.height
    /\ entries = m.entries

BecomeMap(m) ==
    /\ width' = m.width
    /\ height' = m.height
    /\ entries' = m.entries

\* a map is constructed by Tilemap::new or by a Tilemap::import_binary that
\* returns a present result
TilemapConstructed ==
    \/ \E d \in DimInputs :
           /\ IsMap(Tilemap_new(d[1], d[2]))
           /\ tilemap_last = [NoTilemapCall EXCEPT !.w = d[1], !.h = d[2]]
    \/ \E d \in DimInputs, n \in TilemapBufLens :
           LET data == Buffer(n, << 42, 181, 255, 3, 9 >>)
               res == Tilemap_import_binary(data, d[1], d[2])
           IN  /\ IsSome(res)
               /\ IsMap(Unwrap(res))
               /\ tilemap_last = [NoTilemapCall EXCEPT !.op = "import_binary",
                                     !.w = d[1], !.h = d[2], !.data = data,
                                     !.result = res]

SetEntry ==
    \E c \in CoordInputs, e \in EntryInputs :
        /\ BecomeMap(set_entry(ThisMap, c[1], c[2], e))
        /\ tilemap_last' = [NoTilemapCall EXCEPT !.op = "set_entry", !.x = c[1],
                               !.y = c[2], !.entry = e, !.pre = ThisMap]
        /\ UNCHANGED not_tilemap

Resize ==
    \E d \in DimInputs :
        /\ BecomeMap(resize(ThisMap, d[1], d[2]))
        /\ tilemap_last' = [NoTilemapCall EXCEPT !.op = "resize", !.w = d[1],
                               !.h = d[2], !.pre = ThisMap]
        /\ UNCHANGED not_tilemap

Clear ==
    /\ BecomeMap(clear(ThisMap))
    /\ tilemap_last' = [NoTilemapCall EXCEPT !.op = "clear", !.pre = ThisMap]
    /\ UNCHANGED not_tilemap

Fill ==
    \E e \in EntryInputs :
        /\ BecomeMap(fill(ThisMap, e))
        /\ tilemap_last' = [NoTilemapCall EXCEPT !.op = "fill", !.entry = e,
                               !.pre = ThisMap]
        /\ UNCHANGED not_tilemap

TilemapNext ==
    \/ SetEntry
    \/ Resize
    \/ Clear
    \/ Fill

TilemapSpecInit ==
    ColorInit /\ PaletteInit /\ TileInit /\ EntryInit /\ TilemapConstructed

SpecTilemap == TilemapSpecInit /\ [][TilemapNext]_vars

\* resize calls in sequence on a small map: (width, height) arguments up to
\* MaxWidth and MaxHeight, 0 included
SmallDimInputs == (0..MaxWidth) \X (0..MaxHeight)

SmallMapConstructed ==
    \E d \in SmallDimInputs :
        /\ IsMap(Tilemap_new(d[1], d[2]))
        /\ tilemap_last = [NoTilemapCall EXCEPT !.w = d[1], !.h = d[2]]

\* Tilemap::resize, recording also the map before the preceding resize
ResizeAgain ==
    \E d \in SmallDimInputs :
        /\ BecomeMap(resize(ThisMap, d[1], d[2]))
        /\ tilemap_last' = [NoTilemapCall EXCEPT !.op = "resize", !.w = d[1],
                               !.h = d[2], !.pre = ThisMap,
                               !.before = IF tilemap_last.op = "resize"
                                          THEN Some(tilemap_last.pre)
                                          ELSE None]
        /\ UNCHANGED not_tilemap

TilemapResizeNext ==
    \/ SetEntry
    \/ Fill
    \/ ResizeAgain

TilemapResizeInit ==
    ColorInit /\ PaletteInit /\ TileInit /\ EntryInit /\ SmallMapConstructed

SpecTilemapResize == TilemapResizeInit /\ [][TilemapResizeNext]_vars

\* Tilemap::import_binary is a static function of the caller's buffer and
\* dimensions: the caller holds them (op "buffer"), then calls import_binary;
\* a present result is the map from then on
TilemapImportInit ==
    /\ ColorInit /\ PaletteInit /\ TileInit /\ EntryInit
    /\ IsMap(Tilemap_new(1, 1))
    /\ \E d \in DimInputs, data \in TilemapBufferInputs :
           tilemap_last = [NoTilemapCall EXCEPT !.op = "buffer", !.w = d[1],
                              !.h = d[2], !.data = data]

TilemapImportBinary ==
    /\ tilemap_last.op = "buffer"
    /\ LET res == Tilemap_import_binary(tilemap_last.data, tilemap_last.w,
                                        tilemap_last.h)
       IN  /\ BecomeMap(IF IsSome(res) THEN Unwrap(res) ELSE ThisMap)
           /\ tilemap_last' = [tilemap_last EXCEPT !.op = "import_binary",
                                  !.result = res, !.pre = ThisMap]
    /\ UNCHANGED not_tilemap

TilemapImportNext == TilemapImportBinary

SpecTilemapImport == TilemapImportInit /\ [][TilemapImportNext]_vars

(***************************************************************************)
(* Palette claims                                                          *)
(***************************************************************************)
\* C1: every palette reached from Palette::new by set_color calls, with
\* colours built by Color::new, from_rgb555 and from_rgb888, is returned
\* (present and equal) by import_binary of its export_binary.
C1_PaletteExportImport ==
    Palette_import_binary(Palette_export_binary(sub_palettes)) = Some(sub_palettes)

\* a palette holding a colour of each of the three constructors
C1_Witness ==
    /\ palette_last.op = "set_color"
    /\ \A col \in ColorInputs :
           \E p \in 0..15, c \in 0..15 : sub_palettes[p][c] = col

\* C2 as stated: import_binary of any 512-byte buffer is present and its
\* export_binary is the buffer, byte for byte.
C2_AsStated ==
    (palette_last.op = "import_binary" /\ Len(palette_last.data) = 512)
        => /\ IsSome(palette_last.result)
           /\ Palette_export_binary(sub_palettes) = palette_last.data

\* the buffer with bit 15 of every little-endian word (bit 7 of every second
\* byte) cleared
ClearBit15(data) ==
    [i \in 1..Len(data) |-> IF i % 2 = 0 THEN data[i] % 128 ELSE data[i]]

\* C2 amended: import_binary of any 512-byte buffer is present, and its
\* export_binary is the buffer with bit 15 of every word cleared; it is the
\* buffer itself exactly when no word of the buffer has bit 15 set.
C2_ImportExportClearsBit15 ==
    (palette_last.op = "import_binary" /\ Len(palette_last.data) = 512)
        => /\ IsSome(palette_last.result)
           /\ Unwrap(palette_last.result) = sub_palettes
           /\ Palette_export_binary(sub_palettes) = ClearBit15(palette_last.data)
           /\ (Palette_export_binary(sub_palettes) = palette_last.data)
                  <=> (\A i \in 1..256 : palette_last.data[2 * i] < 128)

\* a 512-byte buffer with bit 15 set in some word has been imported
C2_Witness ==
    /\ palette_last.op = "import_binary"
    /\ Len(palette_last.data) = 512
    /\ IsSome(palette_last.result)
    /\ \E i \in 1..256 : palette_last.data[2 * i] >= 128
    /\ \E i \in 1..256 : palette_last.data[2 * i] \in 1..127

(***************************************************************************)
(* Tile claims                                                             *)
(***************************************************************************)
\* C3: every tile reached by set_pixel calls or built by from_planar is
\* equal, pixel for pixel, to from_planar of its to_planar.
C3_TilePlanarRoundTrip ==
    LET back == from_planar(to_planar(pixels))
    IN  /\ back = pixels
        /\ \A x \in 0..7, y \in 0..7 :
               get_pixel(back, x, y) = get_pixel(pixels, x, y)

\* a tile built by from_planar and then written by set_pixel, holding all
\* 16 colours
C3_Witness ==
    /\ tile_last.op = "set_pixel"
    /\ pixels # tile_last.pre
    /\ \A k \in 0..15 : \E x \in 0..7, y \in 0..7 : pixels[y][x] = k

\* a set_pixel call inside the bounds 0<=x<8, 0<=y<8, 0<=color<bound
WithinBounds(call, bound) == call.x < 8 /\ call.y < 8 /\ call.color < bound

\* C8 as stated: a set_pixel call that violates 0<=x<8, 0<=y<8 or
\* 0<=color<15 leaves all 64 pixels unchanged.
C8_AsStated ==
    (tile_last.op = "set_pixel" /\ ~WithinBounds(tile_last, 15))
        => pixels = tile_last.pre

\* C8 amended: set_pixel accepts a write only within 0<=x<8, 0<=y<8 and
\* 0<=color<16 (colour 15 is accepted and stored); a call that violates one
\* of these bounds leaves all 64 pixels unchanged.
C8_SetPixelBounds ==
    tile_last.op = "set_pixel" =>
        /\ ~WithinBounds(tile_last, 16) => pixels = tile_last.pre
        /\ WithinBounds(tile_last, 16) =>
               pixels[tile_last.y][tile_last.x] = tile_last.color

\* set_pixel was called with colour 16 on a tile that is not blank
C8_Witness ==
    /\ tile_last.op = "set_pixel"
    /\ tile_last.x < 8 /\ tile_last.y < 8 /\ tile_last.color = 16
    /\ pixels[tile_last.y][tile_last.x] = 15

(***************************************************************************)
(* TilemapEntry and Tilemap claims                                         *)
(***************************************************************************)
\* C4: every map reached by new, set_entry, fill, clear and resize is
\* returned (present, same width, height and entries) by import_binary of
\* its export_binary with its own width and height.
C4_TilemapExportImport ==
    Tilemap_import_binary(Tilemap_export_binary(ThisMap), width, height)
        = Some(ThisMap)

\* a map wider than high, with cells written by set_entry that differ from
\* each other and from the default
C4_Witness ==
    /\ tilemap_last.op = "set_entry"
    /\ width = 2 /\ height = 1
    /\ entries[1] # TilemapEntry_default
    /\ entries[2] # TilemapEntry_default
    /\ entries[1] # entries[2]

\* C5: an entry built by new (any tile_index, palette_idx and flags) or
\* modified by setters is equal in all five fields to from_u16 of its to_u16.
C5_EntryRoundTrip ==
    LET back == from_u16(to_u16(entry))
    IN  /\ back.tile_index = entry.tile_index
        /\ back.palette_idx = entry.palette_idx
        /\ back.h_flip = entry.h_flip
        /\ back.v_flip = entry.v_flip
        /\ back.priority = entry.priority
        /\ back = entry

\* an entry with both fields at their maxima and every flag set, left by a
\* setter
C5_Witness ==
    /\ entry_last.op = "set_palette_idx"
    /\ entry_last.palette_idx = 255
    /\ entry = [tile_index |-> 1023, palette_idx |-> 7, h_flip |-> TRUE,
                v_flip |-> TRUE, priority |-> TRUE]

\* a requested dimension brought into [1, 256]
Clamped(v) == IF v < 1 THEN 1 ELSE IF v > 256 THEN 256 ELSE v

\* C6: after resize(new_w, new_h) the map has width clamp(new_w, 1, 256) and
\* height clamp(new_h, 1, 256); every cell inside the new bounds holds the
\* entry that was at the same (x, y) before when that was inside the old
\* bounds, and the default entry otherwise; when the clamped size is the old
\* size nothing changes.
C6_Resize ==
    tilemap_last.op = "resize" =>
        LET pre == tilemap_last.pre
        IN  /\ width = Clamped(tilemap_last.w)
            /\ height = Clamped(tilemap_last.h)
            /\ \A x \in 0..(width - 1), y \in 0..(height - 1) :
                   get_entry(ThisMap, x, y) =
                       IF x < pre.width /\ y < pre.height
                       THEN get_entry(pre, x, y)
                       ELSE Some(TilemapEntry_default)
            /\ (Clamped(tilemap_last.w) = pre.width
                    /\ Clamped(tilemap_last.h) = pre.height) => ThisMap = pre

\* a 2-wide map resized with a width above the limit and a lower height: a
\* written cell of row 0 is kept, a written cell of row 1 is dropped, and
\* the cells beyond the old width are default
C6_Witness ==
    /\ tilemap_last.op = "resize"
    /\ tilemap_last.w = OverDim
    /\ tilemap_last.pre.width = 2 /\ tilemap_last.pre.height = 2
    /\ get_entry(tilemap_last.pre, 1, 0) # Some(TilemapEntry_default)
    /\ get_entry(tilemap_last.pre, 1, 1) # Some(TilemapEntry_default)
    /\ width = 256 /\ height = 1
    /\ get_entry(ThisMap, 1, 0) = get_entry(tilemap_last.pre, 1, 0)
    /\ get_entry(ThisMap, 255, 0) = Some(TilemapEntry_default)

\* C7: in every state reached by new, a successful import_binary,
\* set_entry, fill, clear and resize, width and height are in [1, 256], the
\* number of stored entries is width * height, and a requested size is
\* clamped, never rejected.
C7_TilemapSize ==
    /\ width \in 1..256
    /\ height \in 1..256
    /\ Len(entries) = width * height
    /\ tilemap_last.op \in {"new", "import_binary", "resize"} =>
           /\ width = Clamped(tilemap_last.w)
           /\ height = Clamped(tilemap_last.h)

\* a 3 x 2 map after resize(300, 0)
C7_Witness ==
    /\ tilemap_last.op = "resize"
    /\ tilemap_last.w = OverDim /\ tilemap_last.h = 0
    /\ tilemap_last.pre.width = 3 /\ tilemap_last.pre.height = 2
    /\ width = 256 /\ height = 1
    /\ Len(entries) = 256

\* C9: set_entry(x, y, e) with x < width and y < height makes get_entry(x, y)
\* present and equal to e and changes no other cell, nor the width, nor the
\* height; with x >= width or y >= height it changes nothing, and
\* get_entry(x, y) is absent, which is not a present default entry.
C9_SetEntry ==
    tilemap_last.op = "set_entry" =>
        LET pre == tilemap_last.pre
            x == tilemap_last.x
            y == tilemap_last.y
        IN  /\ width = pre.width
            /\ height = pre.height
            /\ (x < pre.width /\ y < pre.height) =>
                   /\ get_entry(ThisMap, x, y) = Some(tilemap_last.entry)
                   /\ \A ox \in 0..(width - 1), oy \in 0..(height - 1) :
                          (ox # x \/ oy # y) =>
                              get_entry(ThisMap, ox, oy) = get_entry(pre, ox, oy)
            /\ (x >= pre.width \/ y >= pre.height) =>
                   /\ ThisMap = pre
                   /\ get_entry(ThisMap, x, y) = None
                   /\ get_entry(ThisMap, x, y) # Some(TilemapEntry_default)

\* set_entry(0, 1, e) has replaced an entry of a 3 x 2 map, whose other
\* cells are not all default
C9_Witness ==
    /\ tilemap_last.op = "set_entry"
    /\ tilemap_last.x = 0 /\ tilemap_last.y = 1
    /\ width = 3 /\ height = 2
    /\ ThisMap # tilemap_last.pre
    /\ entries[2] # TilemapEntry_default
    /\ entries[2] # tilemap_last.entry
    /\ entries[4] = tilemap_last.entry

\* C10 as stated: import_binary(data, width, height) is absent whenever the
\* length of data differs from width * height * 2, for the width and height
\* the caller passed.
C10_AsStated ==
    (tilemap_last.op = "import_binary"
        /\ Len(tilemap_last.data) # tilemap_last.w * tilemap_last.h * 2)
        => tilemap_last.result = None

\* C10 amended: import_binary(data, width, height) is absent (and no map is
\* produced) whenever the length of data differs from
\* clamp(width, 1, 256) * clamp(height, 1, 256) * 2.
C10_ImportWrongLength ==
    (tilemap_last.op = "import_binary"
        /\ Len(tilemap_last.data)
               # Clamped(tilemap_last.w) * Clamped(tilemap_last.h) * 2)
        => /\ tilemap_last.result = None
           /\ ThisMap = tilemap_last.pre

\* a buffer longer than the clamped dimensions need was refused
C10_Witness ==
    /\ tilemap_last.op = "import_binary"
    /\ tilemap_last.w = OverDim /\ tilemap_last.h = 1
    /\ Len(tilemap_last.data) = 600
    /\ tilemap_last.result = None

(***************************************************************************)
(* Color claims                                                            *)
(***************************************************************************)
\* C18: every Color obtained through new, from_rgb555, from_rgb888 or
\* default has its three channels in [0, 31]; new(r, g, b) stores
\* (min(r, 31), min(g, 31), min(b, 31)), each channel on its own.
C18_ChannelsClamped ==
    /\ color_val.r \in 0..31
    /\ color_val.g \in 0..31
    /\ color_val.b \in 0..31
    /\ color_last.op = "new" =>
           /\ color_val.r = (IF color_last.r > 31 THEN 31 ELSE color_last.r)
           /\ color_val.g = (IF color_last.g > 31 THEN 31 ELSE color_last.g)
           /\ color_val.b = (IF color_last.b > 31 THEN 31 ELSE color_last.b)

\* Color::new(50, 7, 255): red and blue saturate, green is kept
C18_Witness ==
    /\ color_last.op = "new"
    /\ color_last.r = 50 /\ color_last.g = 7 /\ color_last.b = 255
    /\ color_val = [r |-> 31, g |-> 7, b |-> 31]

\* C19: for every Color c built by new or from_rgb888,
\* from_rgb555(c.to_rgb555()) is c, so a colour that has gone through
\* to_rgb555 and from_rgb555 is the colour it was, however often repeated.
C19_PackUnpack ==
    /\ from_rgb555(to_rgb555(color_val)) = color_val
    /\ color_last.of_packed =>
           /\ color_last.value = to_rgb555(color_last.pre)
           /\ color_val = color_last.pre

\* a colour with three different non-zero channels has been packed and
\* unpacked
C19_Witness ==
    /\ color_last.op = "from_rgb555"
    /\ color_last.of_packed
    /\ color_last.pre = [r |-> 21, g |-> 10, b |-> 31]
    /\ color_val = color_last.pre

\* C20: to_rgb555 returns 1024*r + 32*g + b (red in bits 14-10, green in
\* bits 9-5, blue in bits 4-0), with bit 15 clear; black gives 0x0000 and
\* white 0x7FFF.
C20_PackedLayout ==
    /\ to_rgb555(color_val) = 1024 * color_val.r + 32 * color_val.g + color_val.b
    /\ to_rgb555(color_val) < 32768
    /\ color_last.method = "to_rgb555" =>
           /\ color_last.packed
                  = 1024 * color_val.r + 32 * color_val.g + color_val.b
           /\ color_last.packed \div 32768 = 0
           /\ color_val = [r |-> 0, g |-> 0, b |-> 0] => color_last.packed = 0
           /\ color_val = [r |-> 31, g |-> 31, b |-> 31]
                  => color_last.packed = 32767

\* to_rgb555 of Color::new(31, 16, 8) has returned 0b11111_10000_01000
C20_Witness ==
    /\ color_last.op = "new"
    /\ color_last.method = "to_rgb555"
    /\ color_val = [r |-> 31, g |-> 16, b |-> 8]
    /\ color_last.packed = 32264

(***************************************************************************)
(* Palette claims: import length, index wrapping, export layout            *)
(***************************************************************************)
\* C11: Palette::import_binary(data) is present if and only if data has
\* exactly 512 bytes; for every other length, 0 included, it is absent and
\* no palette, not even a partly filled one, comes out of the call.
C11_ImportLength ==
    palette_last.op = "import_binary" =>
        /\ IsSome(palette_last.result) <=> (Len(palette_last.data) = 512)
        /\ Len(palette_last.data) # 512 =>
               /\ palette_last.result = None
               /\ sub_palettes = palette_last.pre

\* a buffer one byte too long, with non-zero bytes, was refused
C11_Witness ==
    /\ palette_last.op = "import_binary"
    /\ Len(palette_last.data) = 513
    /\ palette_last.data[1] # 0
    /\ palette_last.result = None
    /\ sub_palettes = Palette_new

\* the u8 indices that address the same row or column as index i
SameCell(i) == { j \in 0..255 : j % 16 = i % 16 }

\* C12: after set_color(p, c, col), get_color(p', c') is col for every u8
\* p', c' with p' mod 16 = p mod 16 and c' mod 16 = c mod 16, and the other
\* 255 cells of the 16 x 16 grid are what they were before the call.
C12_IndicesWrap ==
    palette_last.op = "set_color" =>
        LET p == palette_last.palette_idx
            c == palette_last.color_idx
            pre == palette_last.pre
        IN  /\ \A p2 \in SameCell(p), c2 \in SameCell(c) :
                   get_color(sub_palettes, p2, c2) = palette_last.color
            /\ \A q \in 0..15, d \in 0..15 :
                   (q # p % 16 \/ d # c % 16) => sub_palettes[q][d] = pre[q][d]

\* set_color(18, 255, col) has replaced the colour of cell (2, 15), and the
\* palette holds another colour elsewhere
C12_Witness ==
    /\ palette_last.op = "set_color"
    /\ palette_last.palette_idx = 18 /\ palette_last.color_idx = 255
    /\ palette_last.pre[2][15] # palette_last.color
    /\ palette_last.pre[2][15] # Color_default
    /\ sub_palettes[2][15] = palette_last.color
    /\ sub_palettes[0][2] # Color_default
    /\ sub_palettes[0][2] # palette_last.color

\* C17: export_binary always returns exactly 512 bytes, and for every
\* sub-palette p and colour c in 0..15 the bytes at offsets 2*(16*p + c) and
\* 2*(16*p + c) + 1 are the low and the high byte of
\* get_color(p, c).to_rgb555().
C17_ExportLayout ==
    LET data == Palette_export_binary(sub_palettes)
    IN  /\ Len(data) = 512
        /\ \A p \in 0..15, c \in 0..15 :
               LET word == to_rgb555(get_color(sub_palettes, p, c))
                   offset == 2 * (16 * p + c)
               IN  /\ data[offset + 1] = word % 256
                   /\ data[offset + 2] = word \div 256

\* a palette with different colours at (0, 2) and (2, 0), whose words differ
\* in both bytes
C17_Witness ==
    /\ palette_last.op = "set_color"
    /\ sub_palettes[0][2] # sub_palettes[2][0]
    /\ to_rgb555(sub_palettes[0][2]) % 256 # to_rgb555(sub_palettes[2][0]) % 256
    /\ to_rgb555(sub_palettes[0][2]) \div 256
           # to_rgb555(sub_palettes[2][0]) \div 256
    /\ sub_palettes[2][15] # Color_default

(***************************************************************************)
(* TilemapEntry claims: clamping, bit layout                               *)
(***************************************************************************)
\* a tile index or palette index saturated at limit
Saturated(v, limit) == IF v > limit THEN limit ELSE v

\* C13: in every state reached by new, from_u16 and setters, tile_index is
\* at most 1023 and palette_idx at most 7; new(t, p, ..) and
\* set_tile_index(t) / set_palette_idx(p) store min(t, 1023) and min(p, 7),
\* saturating and not wrapping; a setter changes no field but its own.
C13_EntryClamped ==
    LET call == entry_last
        pre == entry_last.pre
    IN  /\ entry.tile_index \in 0..1023
        /\ entry.palette_idx \in 0..7
        /\ call.op = "new" =>
               entry = [tile_index |-> Saturated(call.tile_index, 1023),
                        palette_idx |-> Saturated(call.palette_idx, 7),
                        h_flip |-> call.h_flip, v_flip |-> call.v_flip,
                        priority |-> call.priority]
        /\ call.op = "set_tile_index" =>
               entry = [pre EXCEPT !.tile_index = Saturated(call.tile_index, 1023)]
        /\ call.op = "set_palette_idx" =>
               entry = [pre EXCEPT !.palette_idx = Saturated(call.palette_idx, 7)]
        /\ call.op = "set_h_flip" => entry = [pre EXCEPT !.h_flip = call.h_flip]
        /\ call.op = "set_v_flip" => entry = [pre EXCEPT !.v_flip = call.v_flip]
        /\ call.op = "set_priority" =>
               entry = [pre EXCEPT !.priority = call.priority]

\* set_tile_index(1024) on an entry with other fields set: the index
\* saturates at 1023 (wrapping would give 0) and the other fields stay
C13_Witness ==
    /\ entry_last.op = "set_tile_index"
    /\ entry_last.tile_index = 1024
    /\ entry_last.pre.tile_index = 511
    /\ entry_last.pre.palette_idx = 7
    /\ entry_last.pre.v_flip
    /\ entry.tile_index = 1023
    /\ entry.palette_idx = 7
    /\ entry.v_flip

\* 1 for a set flag, 0 for a clear one
Bit(flag) == IF flag THEN 1 ELSE 0

\* the word with tile_index in bits 0-9, palette_idx in bits 10-12, h_flip
\* in bit 13, v_flip in bit 14 and priority in bit 15
RevisionAWord(e) ==
    e.tile_index + 1024 * e.palette_idx + 8192 * Bit(e.h_flip)
        + 16384 * Bit(e.v_flip) + 32768 * Bit(e.priority)

\* the fields at those bit positions of a word
RevisionAFields(value) ==
    [tile_index |-> value % 1024,
     palette_idx |-> (value \div 1024) % 8,
     h_flip |-> (value \div 8192) % 2 = 1,
     v_flip |-> (value \div 16384) % 2 = 1,
     priority |-> (value \div 32768) % 2 = 1]

\* C14: to_u16 is tile_index + 1024*palette_idx + 8192*h_flip + 16384*v_flip
\* + 32768*priority, and from_u16 reads the same fields from the same bit
\* positions.
C14_EntryBitLayout ==
    /\ to_u16(entry) = RevisionAWord(entry)
    /\ from_u16(RevisionAWord(entry)) = RevisionAFields(RevisionAWord(entry))
    /\ entry_last.op = "from_u16" => entry = RevisionAFields(entry_last.value)

\* an entry whose word has bits of every field: tile 511, palette 3,
\* h_flip and priority set, v_flip clear
C14_Witness ==
    /\ entry_last.op = "set_h_flip"
    /\ entry = [tile_index |-> 511, palette_idx |-> 3, h_flip |-> TRUE,
                v_flip |-> FALSE, priority |-> TRUE]
    /\ to_u16(entry) = 44543

\* the word with tile_index in bits 0-9, h_flip in bit 10, v_flip in bit 11
\* and palette_idx in bits 12-15
RevisionBWord(e) ==
    e.tile_index + 1024 * Bit(e.h_flip) + 2048 * Bit(e.v_flip)
        + 4096 * e.palette_idx

\* C15: an entry constructed through the binding with (tile_index,
\* palette_idx, h_flip, v_flip) holds palette_idx min(p, 15) and packs to
\* tile_index in bits 0-9, h_flip in bit 10, v_flip in bit 11 and palette_idx
\* in bits 12-15; the binding's set_palette_idx stores min(p, 15).
C15_RevisionB ==
    /\ entry_last.op = "wasm_new" =>
           /\ entry.palette_idx = Saturated(entry_last.palette_idx, 15)
           /\ entry.h_flip = entry_last.h_flip
           /\ entry.v_flip = entry_last.v_flip
           /\ WasmTilemapEntry_to_u16(entry) = RevisionBWord(entry)
    /\ entry_last.op = "wasm_set_palette_idx" =>
           entry.palette_idx = Saturated(entry_last.palette_idx, 15)

(***************************************************************************)
(* Tile claims: planar layout                                              *)
(***************************************************************************)
\* bit n of a byte or colour index
BitOf(v, n) == (v \div (2 ^ n)) % 2

\* C16: to_planar returns 32 bytes in which, for every plane k, row y and
\* column x, bit 7 - x of byte 8*k + y is bit k of the colour of pixel
\* (x, y); the 256 bits of the 32 bytes are exactly these, so no other bit
\* is set.
C16_PlanarLayout ==
    LET planar == to_planar(pixels)
        bytes == [i \in 0..31 |-> planar[i]]
    IN  /\ DOMAIN planar = 0..31
        /\ \A i \in 0..31 : bytes[i] \in 0..255
        /\ \A k \in 0..3, y \in 0..7, x \in 0..7 :
               BitOf(bytes[8 * k + y], 7 - x) = BitOf(pixels[y][x], k)

\* a blank tile with pixel (0, 0) = 15 and pixel (7, 0) = 5: bit 7 of bytes
\* 0, 8, 16, 24 and bit 0 of bytes 0 and 16 only
C16_Witness ==
    /\ tile_last.op = "set_pixel"
    /\ pixels = [Tile_new EXCEPT ![0][0] = 15, ![0][7] = 5]
    /\ to_planar(pixels) =
           [i \in 0..31 |-> CASE i \in {0, 16} -> 129
                              [] i \in {8, 24} -> 128
                              [] OTHER -> 0]

\* coordinates outside the tile: just outside, and far outside
OutsideCoords == {8, 9, 255}

\* C24: after set_pixel(x, y, color) with x, y in 0..7 and color in 0..15
\* (15 included) get_pixel(x, y) is color and the other 63 pixels are
\* unchanged; a call with x >= 8, y >= 8 or color > 15 changes no pixel;
\* get_pixel is 0 whenever x >= 8 or y >= 8.
C24_SetGetPixel ==
    /\ tile_last.op = "set_pixel" =>
           LET x == tile_last.x
               y == tile_last.y
               pre == tile_last.pre
           IN  /\ (x <= 7 /\ y <= 7 /\ tile_last.color <= 15) =>
                      /\ get_pixel(pixels, x, y) = tile_last.color
                      /\ \A ox \in 0..7, oy \in 0..7 :
                             (ox # x \/ oy # y) =>
                                 get_pixel(pixels, ox, oy) = get_pixel(pre, ox, oy)
               /\ (x >= 8 \/ y >= 8 \/ tile_last.color > 15) =>
                      \A ox \in 0..7, oy \in 0..7 :
                          get_pixel(pixels, ox, oy) = get_pixel(pre, ox, oy)
    /\ \A o \in OutsideCoords, i \in (0..7) \cup OutsideCoords :
           /\ get_pixel(pixels, o, i) = 0
           /\ get_pixel(pixels, i, o) = 0

\* set_pixel(7, 0, 15) has replaced another colour on a tile with no blank
\* pixel
C24_Witness ==
    /\ tile_last.op = "set_pixel"
    /\ tile_last.x = 7 /\ tile_last.y = 0 /\ tile_last.color = 15
    /\ tile_last.pre[0][7] \in 1..14
    /\ \A ox \in 0..7, oy \in 0..7 : pixels[oy][ox] # 0
    /\ get_pixel(pixels, 7, 0) = 15

\* C26: for every 32-byte planar buffer d, from_planar(d).to_planar() is d
\* byte for byte, and every pixel of from_planar(d) is in [0, 15].
C26_PlanarImportExport ==
    /\ \A x \in 0..7, y \in 0..7 : pixels[y][x] \in 0..15
    /\ tile_last.op = "from_planar" =>
           LET planar == to_planar(pixels)
           IN  \A i \in 0..31 : planar[i] = tile_last.data[i]

\* a buffer with mixed bits in every plane has been read by from_planar
C26_Witness ==
    /\ tile_last.op = "from_planar"
    /\ \A k \in 0..3 : \E y \in 0..7 : tile_last.data[8 * k + y] \in 1..254
    /\ \E x \in 0..7, y \in 0..7 : pixels[y][x] >= 8
    /\ \E x \in 0..7, y \in 0..7 : pixels[y][x] \in 1..7

(***************************************************************************)
(* Tilemap claims: lossy resize, fill and clear, export layout, import     *)
(***************************************************************************)
\* C21: after a resize from (w1, h1) to a size (w2, h2) smaller on at least
\* one axis and a resize back to (w1, h1), every cell with x >= w2 or
\* y >= h2 holds the default entry whatever it held before, and every cell
\* with x < w2 and y < h2 holds its original entry.
C21_ShrinkGrowLossy ==
    (tilemap_last.op = "resize" /\ IsSome(tilemap_last.before)) =>
        LET orig == Unwrap(tilemap_last.before)
            mid == tilemap_last.pre
        IN  (/\ width = orig.width
             /\ height = orig.height
             /\ (mid.width < orig.width \/ mid.height < orig.height)) =>
                \A x \in 0..(width - 1), y \in 0..(height - 1) :
                    get_entry(ThisMap, x, y) =
                        IF x < mid.width /\ y < mid.height
                        THEN get_entry(orig, x, y)
                        ELSE Some(TilemapEntry_default)

\* a 2 x 2 map with written cells (1, 0) and (0, 1) was resized to one row
\* and back: (1, 0) is kept, (0, 1) is lost
C21_Witness ==
    /\ tilemap_last.op = "resize"
    /\ IsSome(tilemap_last.before)
    /\ Unwrap(tilemap_last.before).width = 2
    /\ Unwrap(tilemap_last.before).height = 2
    /\ get_entry(Unwrap(tilemap_last.before), 1, 0) # Some(TilemapEntry_default)
    /\ get_entry(Unwrap(tilemap_last.before), 0, 1) # Some(TilemapEntry_default)
    /\ tilemap_last.pre.width = 2 /\ tilemap_last.pre.height = 1
    /\ width = 2 /\ height = 2
    /\ get_entry(ThisMap, 1, 0) = get_entry(Unwrap(tilemap_last.before), 1, 0)
    /\ get_entry(ThisMap, 0, 1) = Some(TilemapEntry_default)

\* C22: after fill(e) every in-bounds cell is e, after clear() every
\* in-bounds cell is the default entry (tile 0, palette 0, no flip, no
\* priority); neither changes the width or the height.
C22_FillClear ==
    /\ tilemap_last.op = "fill" =>
           /\ width = tilemap_last.pre.width
           /\ height = tilemap_last.pre.height
           /\ \A x \in 0..(width - 1), y \in 0..(height - 1) :
                  get_entry(ThisMap, x, y) = Some(tilemap_last.entry)
    /\ tilemap_last.op = "clear" =>
           /\ width = tilemap_last.pre.width
           /\ height = tilemap_last.pre.height
           /\ \A x \in 0..(width - 1), y \in 0..(height - 1) :
                  get_entry(ThisMap, x, y) =
                      Some([tile_index |-> 0, palette_idx |-> 0, h_flip |-> FALSE,
                            v_flip |-> FALSE, priority |-> FALSE])

\* a 3 x 2 map whose cells were not all alike has been filled
C22_Witness ==
    /\ tilemap_last.op = "fill"
    /\ width = 3 /\ height = 2
    /\ tilemap_last.pre.entries[2] = tilemap_last.entry
    /\ tilemap_last.pre.entries[6] = TilemapEntry_default
    /\ tilemap_last.entry # TilemapEntry_default
    /\ entries[6] = tilemap_last.entry

\* C23: export_binary returns exactly width * height * 2 bytes, and for
\* every in-bounds (x, y) the bytes at offsets 2*(y*width + x) and
\* 2*(y*width + x) + 1 are the low and the high byte of the to_u16 word of
\* the entry at (x, y).
C23_TilemapExportLayout ==
    LET data == Tilemap_export_binary(ThisMap)
    IN  /\ Len(data) = width * height * 2
        /\ \A x \in 0..(width - 1), y \in 0..(height - 1) :
               LET word == to_u16(Unwrap(get_entry(ThisMap, x, y)))
                   offset == 2 * (y * width + x)
               IN  /\ data[offset + 1] = word % 256
                   /\ data[offset + 2] = word \div 256

\* a 3 x 2 map with cell (1, 0) written and cell (0, 1) default: their words
\* differ in both bytes
C23_Witness ==
    /\ width = 3 /\ height = 2
    /\ tilemap_last.op = "set_entry"
    /\ get_entry(ThisMap, 0, 1) = Some(TilemapEntry_default)
    /\ to_u16(Unwrap(get_entry(ThisMap, 1, 0))) % 256 # 0
    /\ to_u16(Unwrap(get_entry(ThisMap, 1, 0))) \div 256 # 0

\* C25: for width and height in [1, 256] and every buffer B of exactly
\* width * height * 2 bytes, whatever its bytes, import_binary(B, width,
\* height) is present and export_binary of the result is B byte for byte:
\* the five fields take all 16 bits of a word, so to_u16(from_u16(v)) = v.
C25_ImportExport ==
    (/\ tilemap_last.op = "import_binary"
     /\ tilemap_last.w \in 1..256
     /\ tilemap_last.h \in 1..256
     /\ Len(tilemap_last.data) = tilemap_last.w * tilemap_last.h * 2) =>
        /\ IsSome(tilemap_last.result)
        /\ ThisMap = Unwrap(tilemap_last.result)
        /\ width = tilemap_last.w
        /\ height = tilemap_last.h
        /\ Tilemap_export_binary(ThisMap) = tilemap_last.data
        /\ \A i \in 1..(width * height) :
               to_u16(from_u16(ReadWord(tilemap_last.data, 2 * (i - 1))))
                   = ReadWord(tilemap_last.data, 2 * (i - 1))

\* a 12-byte buffer of mixed bytes, with words that set the priority bit,
\* has been imported as a 3 x 2 map
C25_Witness ==
    /\ tilemap_last.op = "import_binary"
    /\ tilemap_last.w = 3 /\ tilemap_last.h = 2
    /\ Len(tilemap_last.data) = 12
    /\ tilemap_last.data[1] # tilemap_last.data[2]
    /\ IsSome(tilemap_last.result)
    /\ \E i \in 1..6 : entries[i].priority
    /\ \E i \in 1..6 : ~entries[i].priority /\ entries[i].palette_idx # 0

=============================================================================
